---- MODULE Spec2Model ----
(***************************************************************************)
(* Constraint propagators of the Tenner Grid CSP solver (propagators.py):  *)
(* prop_BT, prop_FC and prop_GAC over the Variable / Constraint / CSP data *)
(* model, driven by a caller that assigns, unassigns, propagates and       *)
(* restores prunings.                                                      *)
(***************************************************************************)
EXTENDS Integers, Sequences, FiniteSets, TLC

(* ---------------------------------------------------------------------- *)
(* Bounds                                                                  *)
(* ---------------------------------------------------------------------- *)
\* largest number of returned pruning lists the caller holds unrestored
MaxCalls == 2
\* largest number of loop steps followed when a whole prop_GAC run is computed
Fuel == 40

\* "not assigned" sentinel of Variable.get_assigned_value, and newVar = None
NoValue == -1
None == 0

Range(s) == {s[i] : i \in 1..Len(s)}

(* ---------------------------------------------------------------------- *)
(* Problem instances (what a model builder hands to the propagators)       *)
(* ---------------------------------------------------------------------- *)
\* all tuples over the original domains of a scope
Tuples(orig, scope) ==
  {t \in [1..Len(scope) -> UNION {Range(orig[scope[i]]) : i \in 1..Len(scope)}] :
     \A i \in 1..Len(scope) : t[i] \in Range(orig[scope[i]])}

NotEqual(orig, a, b) ==
  [scope |-> <<a, b>>, sat |-> {t \in Tuples(orig, <<a, b>>) : t[1] # t[2]}]

SumIs(orig, a, b, c, s) ==
  [scope |-> <<a, b, c>>,
   sat |-> {t \in Tuples(orig, <<a, b, c>>) : t[1] + t[2] + t[3] = s}]

MakeCSP(orig, cons) == [orig |-> orig, cons |-> cons]

Dom12 == <<1, 2>>
Dom012 == <<0, 1, 2>>

\* two cells of one row
OrigPair == <<Dom12, Dom12>>
\* two pre-set cells holding the same number
OrigFixedPair == <<(<<1>>), (<<1>>)>>
\* three cells of one row
OrigRow == <<Dom12, Dom12, Dom12>>
\* one free cell next to two pre-set cells
OrigStar == <<Dom12, (<<1>>), (<<1>>)>>
\* a column of three cells
OrigColumn == <<Dom012, Dom012, Dom012>>

Problems ==
  << MakeCSP(OrigPair, <<NotEqual(OrigPair, 1, 2)>>),
     MakeCSP(OrigFixedPair, <<NotEqual(OrigFixedPair, 1, 2)>>),
     MakeCSP(OrigRow, <<NotEqual(OrigRow, 2, 3), NotEqual(OrigRow, 1, 2)>>),
     MakeCSP(OrigRow, <<NotEqual(OrigRow, 1, 2), NotEqual(OrigRow, 1, 3),
                        NotEqual(OrigRow, 2, 3)>>),
     MakeCSP(OrigStar, <<NotEqual(OrigStar, 1, 2), NotEqual(OrigStar, 1, 3)>>),
     MakeCSP(OrigRow, <<SumIs(OrigRow, 1, 2, 3, 4), NotEqual(OrigRow, 1, 2)>>),
     MakeCSP(OrigColumn, <<SumIs(OrigColumn, 1, 2, 3, 3)>>) >>

\* the board value of an empty cell, and the number of digits of the grid
EmptyCell == -1
NumDigits == 10

\* size of the boards handed to make_variable_array
NumRows == 2
RowLen == 2

\* what a cell of those boards may hold
BoardCells == {EmptyCell, 0, 1, 9}

Boards == [1..NumRows -> [1..RowLen -> BoardCells]]

\* the domain list of cell j of row i: the digits that are not in the row for
\* an empty cell, the number itself for a pre-set cell
CellDomain(board, i, j) ==
  IF board[i][j] = EmptyCell
  THEN SelectSeq([n \in 1..NumDigits |-> n - 1],
                 LAMBDA n : \A k \in 1..Len(board[i]) : board[i][k] # n)
  ELSE <<board[i][j]>>

\* make_variable_array, the domains of var_array row by row
make_variable_array(board) ==
  [i \in 1..Len(board) |-> [j \in 1..Len(board[i]) |-> CellDomain(board, i, j)]]

(* ---------------------------------------------------------------------- *)
(* Variable                                                                *)
(* ---------------------------------------------------------------------- *)
VarsOf(P) == 1..Len(P.orig)

is_assigned(asg, v) == asg[v] # NoValue

get_assigned_value(asg, v) == asg[v]

\* current admissible values, in original-domain order; the assigned value
\* alone when the variable is assigned
cur_domain(P, dom, asg, v) ==
  IF is_assigned(asg, v) THEN <<asg[v]>>
  ELSE SelectSeq(P.orig[v], LAMBDA x : x \in dom[v])

cur_domain_size(P, dom, asg, v) == Len(cur_domain(P, dom, asg, v))

in_cur_domain(dom, asg, v, val) ==
  IF is_assigned(asg, v) THEN val = asg[v] ELSE val \in dom[v]

prune_value(dom, v, val) == [dom EXCEPT ![v] = @ \ {val}]

restore_value(dom, v, val) == [dom EXCEPT ![v] = @ \cup {val}]

(* ---------------------------------------------------------------------- *)
(* Constraint and CSP container                                            *)
(* ---------------------------------------------------------------------- *)
get_scope(P, c) == P.cons[c].scope

get_unasgn_vars(P, asg, c) ==
  SelectSeq(get_scope(P, c), LAMBDA v : ~is_assigned(asg, v))

get_n_unasgn(P, asg, c) == Len(get_unasgn_vars(P, asg, c))

check(P, c, vals) == vals \in P.cons[c].sat

\* position of var in a scope (list.index: the first occurrence)
IndexOf(scope, var) ==
  CHOOSE i \in 1..Len(scope) :
    scope[i] = var /\ \A j \in 1..(i - 1) : scope[j] # var

has_support(P, dom, asg, c, var, val) ==
  LET scope == get_scope(P, c)
      k == IndexOf(scope, var)
  IN \E t \in P.cons[c].sat :
       /\ t[k] = val
       /\ \A i \in 1..Len(scope) :
            i # k => in_cur_domain(dom, asg, scope[i], t[i])

get_all_cons(P) == [i \in 1..Len(P.cons) |-> i]

get_cons_with_var(P, v) ==
  SelectSeq(get_all_cons(P), LAMBDA c : v \in Range(get_scope(P, c)))

(* ---------------------------------------------------------------------- *)
(* Propagators                                                             *)
(* ---------------------------------------------------------------------- *)
\* assigned values of a scope, position by position
AssignedVals(P, asg, c) ==
  [i \in 1..Len(get_scope(P, c)) |-> get_assigned_value(asg, get_scope(P, c)[i])]

\* BTLoop without the get_n_unasgn() == 0 test
RECURSIVE BTLoop_NoGuard(_, _, _)
BTLoop_NoGuard(P, asg, cs) ==
  IF cs = <<>> THEN TRUE
  ELSE IF ~check(P, Head(cs), AssignedVals(P, asg, Head(cs)))
       THEN FALSE
       ELSE BTLoop_NoGuard(P, asg, Tail(cs))

RECURSIVE BTLoop(_, _, _)
BTLoop(P, asg, cs) ==
  IF cs = <<>> THEN TRUE
  ELSE IF /\ get_n_unasgn(P, asg, Head(cs)) = 0
          /\ ~check(P, Head(cs), AssignedVals(P, asg, Head(cs)))
       THEN FALSE
       ELSE BTLoop(P, asg, Tail(cs))

prop_BT(P, dom, asg, newVar) ==
  IF newVar = None THEN [ok |-> TRUE, pruned |-> <<>>, dom |-> dom]
  ELSE [ok |-> BTLoop(P, asg, get_cons_with_var(P, newVar)),
        pruned |-> <<>>, dom |-> dom]

\* get_assgn_list that keeps the index it starts with
get_assgn_list_First(P, asg, c, var) ==
  [i |-> 1, assgn_list |-> AssignedVals(P, asg, c)]

get_assgn_list(P, asg, c, var) ==
  [i |-> IF var # None THEN IndexOf(get_scope(P, c), var) ELSE 1,
   assgn_list |-> AssignedVals(P, asg, c)]

\* get_constraints that takes only the unary constraints when newVar is None
get_constraints_Unary(P, newVar) ==
  IF newVar = None
  THEN SelectSeq(get_all_cons(P), LAMBDA c : Len(get_scope(P, c)) = 1)
  ELSE get_cons_with_var(P, newVar)

get_constraints(P, newVar) ==
  IF newVar = None THEN get_all_cons(P) ELSE get_cons_with_var(P, newVar)

\* one prune_value call on the variables' state w, followed by the append to
\* the pruning list; absent records a prune_value of a value that is not in
\* the variable's current domain at that moment, emptied a prune_value that
\* took the last value of a current domain
DoPrune(w, v, val) ==
  [dom |-> prune_value(w.dom, v, val),
   pruned |-> Append(w.pruned, <<v, val>>),
   absent |-> w.absent \/ val \notin w.dom[v],
   emptied |-> w.emptied \/ (val \in w.dom[v] /\ w.dom[v] \ {val} = {})]

\* the loop over check_vals of one constraint in prop_FC
RECURSIVE FCVals(_, _, _, _, _, _)
FCVals(P, c, u, al, vals, w) ==
  IF vals = <<>> THEN w
  ELSE LET val == Head(vals)
           tup == [al.assgn_list EXCEPT ![al.i] = val]
       IN IF ~check(P, c, tup) /\ <<u, val>> \notin Range(w.pruned)
          THEN FCVals(P, c, u, al, Tail(vals), DoPrune(w, u, val))
          ELSE FCVals(P, c, u, al, Tail(vals), w)

\* the loop over the selected constraints in prop_FC; rest is what is left of
\* the constraint list when the loop is left
RECURSIVE FCLoop(_, _, _, _)
FCLoop(P, asg, cs, w) ==
  IF cs = <<>>
  THEN [ok |-> TRUE, pruned |-> w.pruned, dom |-> w.dom, rest |-> cs,
        absent |-> w.absent, emptied |-> w.emptied]
  ELSE LET c == Head(cs)
       IN IF get_n_unasgn(P, asg, c) = 1
          THEN LET u == get_unasgn_vars(P, asg, c)[1]
                   al == get_assgn_list(P, asg, c, u)
                   r == FCVals(P, c, u, al, cur_domain(P, w.dom, asg, u), w)
               IN IF cur_domain_size(P, r.dom, asg, u) = 0
                  THEN [ok |-> FALSE, pruned |-> r.pruned, dom |-> r.dom,
                        rest |-> Tail(cs),
                        absent |-> r.absent, emptied |-> r.emptied]
                  ELSE FCLoop(P, asg, Tail(cs), r)
          ELSE FCLoop(P, asg, Tail(cs), w)

Fresh(dom) ==
  [dom |-> dom, pruned |-> <<>>, absent |-> FALSE, emptied |-> FALSE]

prop_FC(P, dom, asg, newVar) ==
  FCLoop(P, asg, get_constraints(P, newVar), Fresh(dom))

(* prop_GAC, one loop step at a time.  A configuration g holds the worklist  *)
(* (queue), the constraint being revised (c, None at the head of the while   *)
(* loop), the scope position (vi) and the values of that variable still to   *)
(* be examined (vals, the list cur_domain() returned), and the variables'    *)
(* state with the pruning list.                                              *)

\* GACEnqueue without the test for pending constraints
GACEnqueue_NoDedup(queue, c_prime) == queue \o c_prime

\* GACEnqueue that pushes nothing
GACEnqueue_None(queue, c_prime) == queue

\* GACEnqueue that stops after the first constraint of v
GACEnqueue_FirstOnly(queue, c_prime) ==
  IF c_prime = <<>> \/ Head(c_prime) \in Range(queue) THEN queue
  ELSE Append(queue, Head(c_prime))

\* lines 170-176: push the constraints of v that are not pending
RECURSIVE GACEnqueue(_, _)
GACEnqueue(queue, c_prime) ==
  IF c_prime = <<>> THEN queue
  ELSE IF Head(c_prime) \in Range(queue)
       THEN GACEnqueue(queue, Tail(c_prime))
       ELSE GACEnqueue(Append(queue, Head(c_prime)), Tail(c_prime))

\* the two for loops: move to the next variable of the scope once the values
\* of the current one are used up, and back to the while loop after the last
RECURSIVE GACAdvance(_, _, _)
GACAdvance(P, asg, g) ==
  IF g.vals # <<>> THEN g
  ELSE IF g.vi < Len(get_scope(P, g.c))
       THEN GACAdvance(P, asg,
              [g EXCEPT !.vi = g.vi + 1,
                        !.vals = cur_domain(P, g.dom, asg,
                                            get_scope(P, g.c)[g.vi + 1])])
       ELSE [g EXCEPT !.c = None, !.vi = 0]

\* lines 155-156: the while test and the pop
GACPop(P, asg, g) ==
  IF Len(g.queue) > 0
  THEN LET c == Head(g.queue)
       IN GACAdvance(P, asg,
            [g EXCEPT !.queue = Tail(g.queue), !.c = c, !.vi = 1,
                      !.vals = cur_domain(P, g.dom, asg, get_scope(P, c)[1])])
  ELSE [g EXCEPT !.st = "true"]

\* lines 162-176: one value of the current variable
GACExamine(P, asg, g) ==
  LET v == get_scope(P, g.c)[g.vi]
      val == Head(g.vals)
      w == [dom |-> g.dom, pruned |-> g.pruned, absent |-> g.absent,
            emptied |-> g.emptied]
  IN IF has_support(P, g.dom, asg, g.c, v, val)
     THEN GACAdvance(P, asg, [g EXCEPT !.vals = Tail(g.vals)])
     ELSE LET r == IF <<v, val>> \notin Range(g.pruned)
                   THEN DoPrune(w, v, val) ELSE w
              h == [g EXCEPT !.dom = r.dom, !.pruned = r.pruned,
                             !.absent = r.absent, !.emptied = r.emptied]
          IN IF cur_domain_size(P, r.dom, asg, v) = 0
             THEN [h EXCEPT !.st = "false", !.queue = <<>>]
             ELSE GACAdvance(P, asg,
                    [h EXCEPT !.vals = Tail(g.vals),
                              !.queue = GACEnqueue(g.queue,
                                                   get_cons_with_var(P, v))])

GACStepFn(P, asg, g) ==
  IF g.c = None THEN GACPop(P, asg, g) ELSE GACExamine(P, asg, g)

\* GACStart that leaves the worklist empty
GACStart_NoSeed(P, dom, newVar) ==
  [st |-> "run", queue |-> <<>>, c |-> None, vi |-> 0,
   vals |-> <<>>, dom |-> dom, pruned |-> <<>>, absent |-> FALSE,
   emptied |-> FALSE]

\* lines 147-152
GACStart(P, dom, newVar) ==
  [st |-> "run", queue |-> get_constraints(P, newVar), c |-> None, vi |-> 0,
   vals |-> <<>>, dom |-> dom, pruned |-> <<>>, absent |-> FALSE,
   emptied |-> FALSE]

\* a whole run of the loop, followed for at most n steps
RECURSIVE GACRun(_, _, _, _)
GACRun(P, asg, g, n) ==
  IF g.st # "run" \/ n = 0 THEN g ELSE GACRun(P, asg, GACStepFn(P, asg, g), n - 1)

prop_GAC(P, dom, asg, newVar) == GACRun(P, asg, GACStart(P, dom, newVar), Fuel)

(* ---------------------------------------------------------------------- *)
(* State: one CSP, its Variables, and the caller of the propagators        *)
(* ---------------------------------------------------------------------- *)
VARIABLES
  prob,      \* which problem of Problems the CSP object holds
  asg,       \* Variable -> assigned value, NoValue when unassigned
  dom,       \* Variable -> set of values of its current domain
  gac,       \* configuration of the prop_GAC call in progress, Idle if none
  call,      \* newVar and the variables' state at the start of that call
  ret,       \* what the propagator call that just returned gave back
  stack,     \* pruning lists returned and not yet restored, oldest first
  restored,  \* the restoration that was just done
  board,     \* the board a model builder was given, <<>> if none
  var_array  \* the domains of the Variables built from it, <<>> before

vars == <<prob, asg, dom, gac, call, ret, stack, restored, board, var_array>>

CSP == Problems[prob]

Idle ==
  [st |-> "idle", queue |-> <<>>, c |-> None, vi |-> 0, vals |-> <<>>,
   dom |-> <<>>, pruned |-> <<>>, absent |-> FALSE, emptied |-> FALSE]

NoCall == [newVar |-> None, dom0 |-> <<>>]

NoRet ==
  [kind |-> "none", newVar |-> None, ok |-> TRUE, pruned |-> <<>>,
   dom0 |-> <<>>, asg0 |-> <<>>, rest |-> <<>>, absent |-> FALSE,
   emptied |-> FALSE]

NoRestore == [done |-> FALSE, dom0 |-> <<>>]

Returned(kind, newVar, r, rest) ==
  [kind |-> kind, newVar |-> newVar, ok |-> r.ok, pruned |-> r.pruned,
   dom0 |-> dom, asg0 |-> asg, rest |-> rest, absent |-> r.absent,
   emptied |-> r.emptied]

\* the caller keeps a returned pruning list until it restores it
Keep(pruned, dom0) ==
  IF pruned = <<>> THEN stack
  ELSE Append(stack, [pruned |-> pruned, dom0 |-> dom0])

Init ==
  /\ prob \in 1..Len(Problems)
  /\ asg = [v \in VarsOf(CSP) |-> NoValue]
  /\ dom = [v \in VarsOf(CSP) |-> Range(CSP.orig[v])]
  /\ gac = Idle
  /\ call = NoCall
  /\ ret = NoRet
  /\ stack = <<>>
  /\ restored = NoRestore
  /\ board = <<>>
  /\ var_array = <<>>

\* Variable.assign by the search: a value of the current domain
Assign(v, val) ==
  /\ gac.st = "idle"
  /\ ~is_assigned(asg, v)
  /\ val \in Range(cur_domain(CSP, dom, asg, v))
  /\ asg' = [asg EXCEPT ![v] = val]
  /\ ret' = NoRet
  /\ restored' = NoRestore
  /\ UNCHANGED <<board, var_array, prob, dom, gac, call, stack>>

Unassign(v) ==
  /\ gac.st = "idle"
  /\ is_assigned(asg, v)
  /\ asg' = [asg EXCEPT ![v] = NoValue]
  /\ ret' = NoRet
  /\ restored' = NoRestore
  /\ UNCHANGED <<board, var_array, prob, dom, gac, call, stack>>

CallBT(newVar) ==
  /\ gac.st = "idle"
  /\ LET r == prop_BT(CSP, dom, asg, newVar)
     IN /\ dom' = r.dom
        /\ ret' = Returned("BT", newVar,
                           [ok |-> r.ok, pruned |-> r.pruned,
                            absent |-> FALSE, emptied |-> FALSE], <<>>)
        /\ stack' = Keep(r.pruned, dom)
  /\ restored' = NoRestore
  /\ UNCHANGED <<board, var_array, prob, asg, gac, call>>

CallFC(newVar) ==
  /\ gac.st = "idle"
  /\ Len(stack) < MaxCalls
  /\ LET r == prop_FC(CSP, dom, asg, newVar)
     IN /\ dom' = r.dom
        /\ ret' = Returned("FC", newVar, r, r.rest)
        /\ stack' = Keep(r.pruned, dom)
  /\ restored' = NoRestore
  /\ UNCHANGED <<board, var_array, prob, asg, gac, call>>

CallGAC(newVar) ==
  /\ gac.st = "idle"
  /\ Len(stack) < MaxCalls
  /\ gac' = GACStart(CSP, dom, newVar)
  /\ call' = [newVar |-> newVar, dom0 |-> dom]
  /\ ret' = NoRet
  /\ restored' = NoRestore
  /\ UNCHANGED <<board, var_array, prob, asg, dom, stack>>

\* one step of the loop of the call in progress; the step that leaves the
\* loop returns to the caller
GACStep ==
  /\ gac.st = "run"
  /\ LET g == GACStepFn(CSP, asg, gac)
     IN /\ dom' = g.dom
        /\ IF g.st = "run"
           THEN /\ gac' = g
                /\ UNCHANGED <<call, ret, stack>>
           ELSE /\ gac' = Idle
                /\ call' = NoCall
                /\ ret' = [kind |-> "GAC", newVar |-> call.newVar,
                           ok |-> (g.st = "true"), pruned |-> g.pruned,
                           dom0 |-> call.dom0, asg0 |-> asg, rest |-> <<>>,
                           absent |-> g.absent, emptied |-> g.emptied]
                /\ stack' = Keep(g.pruned, call.dom0)
  /\ UNCHANGED <<board, var_array, prob, asg, restored>>

\* restore_value over a pruning list, last pruning first
RECURSIVE RestoreAll(_, _)
RestoreAll(d, pruned) ==
  IF pruned = <<>> THEN d
  ELSE LET p == pruned[Len(pruned)]
       IN RestoreAll(restore_value(d, p[1], p[2]),
                     SubSeq(pruned, 1, Len(pruned) - 1))

\* the caller undoes the last propagator call it has not undone yet
Restore ==
  /\ gac.st = "idle"
  /\ stack # <<>>
  /\ LET top == stack[Len(stack)]
     IN /\ dom' = RestoreAll(dom, top.pruned)
        /\ restored' = [done |-> TRUE, dom0 |-> top.dom0]
  /\ stack' = SubSeq(stack, 1, Len(stack) - 1)
  /\ ret' = NoRet
  /\ UNCHANGED <<board, var_array, prob, asg, gac, call>>

NewVars == {None} \cup VarsOf(CSP)

Next ==
  \/ \E v \in VarsOf(CSP) : \E val \in Range(CSP.orig[v]) : Assign(v, val)
  \/ \E v \in VarsOf(CSP) : Unassign(v)
  \/ \E nv \in NewVars : CallBT(nv)
  \/ \E nv \in NewVars : CallFC(nv)
  \/ \E nv \in NewVars : CallGAC(nv)
  \/ GACStep
  \/ Restore

Spec == Init /\ [][Next]_vars

\* a call in progress keeps running: the interpreter does not stop in the
\* middle of prop_GAC
FairSpec == Spec /\ WF_vars(GACStep)

\* the model builder on its own: a board comes in, the Variables are built
InitBoard ==
  /\ prob = 1
  /\ asg = [v \in VarsOf(CSP) |-> NoValue]
  /\ dom = [v \in VarsOf(CSP) |-> Range(CSP.orig[v])]
  /\ gac = Idle
  /\ call = NoCall
  /\ ret = NoRet
  /\ stack = <<>>
  /\ restored = NoRestore
  /\ board \in Boards
  /\ var_array = <<>>

BuildVariables ==
  /\ var_array = <<>>
  /\ var_array' = make_variable_array(board)
  /\ UNCHANGED <<board, prob, asg, dom, gac, call, ret, stack, restored>>

NextBoard == BuildVariables

BoardSpec == InitBoard /\ [][NextBoard]_vars

TypeOK ==
  /\ prob \in 1..Len(Problems)
  /\ \A v \in VarsOf(CSP) :
       /\ dom[v] \subseteq Range(CSP.orig[v])
       /\ asg[v] \in Range(CSP.orig[v]) \cup {NoValue}
  /\ gac.st \in {"idle", "run"}
  /\ Len(stack) <= MaxCalls

(* ---------------------------------------------------------------------- *)
(* Properties                                                              *)
(* ---------------------------------------------------------------------- *)
Running == gac.st = "run"

\* C1: every call of prop_GAC terminates: a call in progress eventually
\* returns to its caller (with true or with false).
C1_GACTerminates == Running ~> ~Running

PairsOf(pruned) == Range(pruned)

NoRepeat(s) == \A i, j \in 1..Len(s) : i # j => s[i] # s[j]

\* the variables' state the call started from, less the pairs it pruned
After(dom0, pruned) ==
  [v \in DOMAIN dom0 |-> dom0[v] \ {val \in dom0[v] : <<v, val>> \in PairsOf(pruned)}]

Pruning == ret.kind \in {"FC", "GAC"}

\* C2: no double pruning: a propagator never calls prune_value on a value
\* that is absent from the variable's current domain at that moment, and no
\* pair of the returned pruning list was absent before the call.
C2_NoDoublePruning ==
  /\ Running => ~gac.absent
  /\ Pruning =>
       /\ ~ret.absent
       /\ \A p \in PairsOf(ret.pruned) : p[2] \in ret.dom0[p[1]]

\* C3: restoration round trip: once the caller has restored a returned
\* pruning list (last pruning first, the later lists before it), every
\* current domain is what it was before that call; a call that returned an
\* empty list changed nothing.
C3_RestoreRoundTrip ==
  /\ restored.done => dom = restored.dom0
  /\ (ret.kind # "none" /\ ret.pruned = <<>>) => dom = ret.dom0

\* C4: wipeout abort: a pruning that empties a current domain ends the call
\* at once with false, and the returned list is exactly the prunings made,
\* the last of them on the emptied domain.
C4_WipeoutAbort ==
  /\ Running => ~gac.emptied
  /\ Pruning =>
       /\ ret.emptied =>
            /\ ~ret.ok
            /\ dom[ret.pruned[Len(ret.pruned)][1]] = {}
       /\ NoRepeat(ret.pruned)
       /\ dom = After(ret.dom0, ret.pruned)

ArcConsistent(P, d, a, c) ==
  \A i \in 1..Len(get_scope(P, c)) :
    \A val \in Range(cur_domain(P, d, a, get_scope(P, c)[i])) :
      has_support(P, d, a, c, get_scope(P, c)[i], val)

\* C5: GAC fixpoint: when prop_GAC(csp, None) returns true, every constraint
\* of the CSP is arc-consistent: each value of the current domain of each
\* scope variable has a support.
C5_GACFixpoint ==
  (ret.kind = "GAC" /\ ret.newVar = None /\ ret.ok) =>
    \A c \in 1..Len(CSP.cons) : ArcConsistent(CSP, dom, asg, c)

C5_Witness ==
  /\ ret.kind = "GAC" /\ ret.newVar = None /\ ret.ok
  /\ Len(ret.pruned) >= 2
  /\ \E v \in VarsOf(CSP) : is_assigned(asg, v)

\* total assignments that satisfy every constraint, take each value from the
\* variable's current domain and agree with the assigned values
Solutions(P, d, a) ==
  {s \in [VarsOf(P) -> UNION {Range(P.orig[v]) : v \in VarsOf(P)}] :
     /\ \A v \in VarsOf(P) :
          s[v] \in Range(P.orig[v]) /\ in_cur_domain(d, a, v, s[v])
     /\ \A c \in 1..Len(P.cons) :
          [i \in 1..Len(get_scope(P, c)) |-> s[get_scope(P, c)[i]]]
            \in P.cons[c].sat}

Sound(P, d, a, pruned) ==
  \A p \in PairsOf(pruned) : \A s \in Solutions(P, d, a) : s[p[1]] # p[2]

\* C6: soundness: no pair pruned by prop_FC or prop_GAC (returned, or pruned
\* so far by the call in progress) belongs to a solution of the CSP that is
\* consistent with the domains and assignments the call started from.
C6_Soundness ==
  /\ Running => Sound(CSP, call.dom0, asg, gac.pruned)
  /\ Pruning => Sound(CSP, ret.dom0, ret.asg0, ret.pruned)

C6_Witness ==
  /\ Pruning
  /\ ret.pruned # <<>>
  /\ Solutions(CSP, ret.dom0, ret.asg0) # {}
  /\ \E v \in VarsOf(CSP) : is_assigned(asg, v)

Rev(s) == [i \in 1..Len(s) |-> s[Len(s) + 1 - i]]

Perms(n) == {f \in [1..n -> 1..n] : \A i, j \in 1..n : i # j => f[i] # f[j]}

\* the same CSP built in another order: the constraints added in the order f,
\* every scope (and its tuples) written backwards when flip, the original
\* domains listed backwards when rev
Reorder(P, f, flip, rev) ==
  [orig |-> [v \in 1..Len(P.orig) |-> IF rev THEN Rev(P.orig[v]) ELSE P.orig[v]],
   cons |-> [i \in 1..Len(P.cons) |->
               IF flip
               THEN [scope |-> Rev(P.cons[f[i]].scope),
                     sat |-> {Rev(t) : t \in P.cons[f[i]].sat}]
               ELSE P.cons[f[i]]]]

Reorderings(P) ==
  {Reorder(P, f, flip, rev) :
     f \in Perms(Len(P.cons)), flip \in BOOLEAN, rev \in BOOLEAN}

\* C7 as claimed: whatever the order, the domains prop_GAC leaves when it
\* returns (true or false) are the same.
C7_Confluence ==
  ret.kind = "GAC" =>
    \A Q \in Reorderings(CSP) :
      LET alt == prop_GAC(Q, ret.dom0, ret.asg0, ret.newVar)
      IN alt.st # "run" => alt.dom = dom

\* C7, amended: when prop_GAC returns true, it returns true in every order of
\* the constraints, scopes and values, and leaves the same current domains.
C7_ConfluenceOnSuccess ==
  (ret.kind = "GAC" /\ ret.ok) =>
    \A Q \in Reorderings(CSP) :
      LET alt == prop_GAC(Q, ret.dom0, ret.asg0, ret.newVar)
      IN alt.st = "true" /\ alt.dom = dom

C7_Witness ==
  /\ ret.kind = "GAC" /\ ret.ok
  /\ Len(ret.pruned) >= 2
  /\ Len(CSP.cons) >= 2
  /\ \E Q \in Reorderings(CSP) :
       prop_GAC(Q, ret.dom0, ret.asg0, ret.newVar).pruned # ret.pruned

SubDomains(d, e) == \A v \in DOMAIN d : d[v] \subseteq e[v]

\* C8 as claimed: from one state, the domains left by prop_GAC are subsets of
\* those left by prop_FC, which are subsets of those left by prop_BT.
C8_MonotonicStrength ==
  ret.kind = "GAC" =>
    /\ SubDomains(dom, prop_FC(CSP, ret.dom0, ret.asg0, ret.newVar).dom)
    /\ SubDomains(prop_FC(CSP, ret.dom0, ret.asg0, ret.newVar).dom,
                  prop_BT(CSP, ret.dom0, ret.asg0, ret.newVar).dom)

\* C8, amended: when prop_GAC returns true, the domains it leaves are subsets
\* of those prop_FC leaves from the same state, which are subsets of those
\* prop_BT leaves (the domains of that state, unchanged).
C8_StrengthOnSuccess ==
  (ret.kind = "GAC" /\ ret.ok) =>
    /\ SubDomains(dom, prop_FC(CSP, ret.dom0, ret.asg0, ret.newVar).dom)
    /\ SubDomains(prop_FC(CSP, ret.dom0, ret.asg0, ret.newVar).dom,
                  prop_BT(CSP, ret.dom0, ret.asg0, ret.newVar).dom)
    /\ prop_BT(CSP, ret.dom0, ret.asg0, ret.newVar).dom = ret.dom0

C8_Witness ==
  /\ ret.kind = "GAC" /\ ret.ok
  /\ prop_FC(CSP, ret.dom0, ret.asg0, ret.newVar).pruned # <<>>
  /\ dom # prop_FC(CSP, ret.dom0, ret.asg0, ret.newVar).dom

FullyAssigned(P, a, c) ==
  \A i \in 1..Len(get_scope(P, c)) : a[get_scope(P, c)[i]] # NoValue

Violated(P, a, c) ==
  [i \in 1..Len(get_scope(P, c)) |-> a[get_scope(P, c)[i]]] \notin P.cons[c].sat

\* C9: prop_BT only vetoes: it returns false exactly when newVar is given and
\* some constraint with newVar in its scope has its whole scope assigned to a
\* tuple that fails check; the pruning list is empty and no current domain
\* and no assignment is changed.
C9_BTOnlyVetoes ==
  ret.kind = "BT" =>
    /\ ret.ok = ~(/\ ret.newVar # None
                  /\ \E c \in 1..Len(CSP.cons) :
                       /\ \E i \in 1..Len(get_scope(CSP, c)) :
                            get_scope(CSP, c)[i] = ret.newVar
                       /\ FullyAssigned(CSP, ret.asg0, c)
                       /\ Violated(CSP, ret.asg0, c))
    /\ ret.pruned = <<>>
    /\ dom = ret.dom0
    /\ asg = ret.asg0

C9_Witness ==
  /\ ret.kind = "BT" /\ ~ret.ok
  /\ \E c \in 1..Len(CSP.cons) : ~FullyAssigned(CSP, asg, c)

\* the constraints prop_FC is to look at, and those it got to
Selected(P, newVar) ==
  {c \in 1..Len(P.cons) :
     newVar = None \/ \E i \in 1..Len(get_scope(P, c)) : get_scope(P, c)[i] = newVar}

Unassigned(P, a, c) ==
  {i \in 1..Len(get_scope(P, c)) : a[get_scope(P, c)[i]] = NoValue}

\* the pairs (u, val) that fail check in constraint c, which has u as its one
\* unassigned scope member
Failing(P, d, a, c) ==
  IF Cardinality(Unassigned(P, a, c)) # 1 THEN {}
  ELSE LET k == CHOOSE i \in Unassigned(P, a, c) : TRUE
           u == get_scope(P, c)[k]
       IN {<<u, val>> : val \in
             {x \in d[u] :
                [i \in 1..Len(get_scope(P, c)) |->
                   IF i = k THEN x ELSE a[get_scope(P, c)[i]]]
                  \notin P.cons[c].sat}}

NotEqualScenario ==
  /\ ret.kind = "GAC"
  /\ CSP = MakeCSP(OrigPair, <<NotEqual(OrigPair, 1, 2)>>)
  /\ ret.newVar = 1
  /\ ret.asg0 = <<1, NoValue>>
  /\ ret.dom0 = <<{1, 2}, {1, 2}>>

\* C11: end-to-end binary not-equal: in that scenario prop_GAC returns true,
\* the second Variable's current domain is {2}, the pruned list is exactly
\* [(second, 1)] and nothing is pruned from the first Variable.
C11_NotEqualScenario ==
  NotEqualScenario =>
    /\ ret.ok
    /\ dom[2] = {2}
    /\ ret.pruned = << <<2, 1>> >>
    /\ dom[1] = {1, 2}

C11_Witness == NotEqualScenario /\ asg = <<1, NoValue>>

\* C12: cell domains built by make_variable_array: the Variable of a cell
\* holding -1 has the original domain {0,...,9}, the Variable of a cell
\* holding a fixed number i has the original domain {i}.
C12_CellDomains ==
  var_array # <<>> =>
    \A i \in 1..Len(board) : \A j \in 1..Len(board[i]) :
      Range(var_array[i][j]) =
        IF board[i][j] = EmptyCell THEN 0..9 ELSE {board[i][j]}

\* the constraints of v that are not pending, in get_cons_with_var order
NotPending(P, queue, v) ==
  SelectSeq(get_cons_with_var(P, v), LAMBDA c : c \notin Range(queue))

\* one step of a prop_GAC call that stays in the loop: at the head of the
\* while loop the head of the worklist is removed; while a constraint is
\* revised the worklist is left alone or gets the constraints of the
\* examined variable that are not pending at its tail, and it gets them
\* whenever the step pruned a value
WorklistStep ==
  (Running /\ gac'.st = "run") =>
    IF gac.c = None
    THEN /\ gac.queue # <<>>
         /\ gac'.queue = Tail(gac.queue)
         /\ gac'.c \in {Head(gac.queue), None}
    ELSE LET v == get_scope(CSP, gac.c)[gac.vi]
             more == gac.queue \o NotPending(CSP, gac.queue, v)
         IN /\ gac'.queue \in {gac.queue, more}
            /\ gac'.pruned # gac.pruned =>
                 /\ gac'.pruned = Append(gac.pruned, <<v, Head(gac.vals)>>)
                 /\ gac'.queue = more
                 /\ gac.c \in Range(gac'.queue)
                 /\ \A c \in Range(get_cons_with_var(CSP, v)) :
                      c \in Range(gac'.queue)

\* C13: GAC worklist discipline: during a prop_GAC run the worklist holds
\* each constraint at most once; after a prune that does not end the call,
\* every constraint of the pruned variable that is not pending (the one being
\* revised included) is appended at the tail in get_cons_with_var order; and
\* constraints leave the worklist at its head only.
C13_WorklistDiscipline ==
  /\ [](Running => NoRepeat(gac.queue))
  /\ [][WorklistStep]_vars

C13_Witness ==
  /\ Running
  /\ gac.c # None
  /\ gac.pruned # <<>>
  /\ Len(gac.queue) >= 2
  /\ gac.c \in Range(gac.queue)
  /\ gac.queue[Len(gac.queue)] # gac.c

====
